---- MODULE Spec2Model ----
(***************************************************************************)
(* Replication session controller of LiteCore (C4Replicator and the C API  *)
(* around it, src/Replicator/c4Replicator.cc).                             *)
(*                                                                         *)
(* One session slot is modelled.  Three threads act on it: the caller      *)
(* thread (c4repl_new, c4repl_getStatus, c4repl_stop, c4repl_free), the    *)
(* thread of the primary protocol engine (_replicator) and the thread of   *)
(* the peer engine (_otherReplicator, local-to-local sessions only).  Each *)
(* engine delivers its status notifications one at a time on its own       *)
(* thread; the statements of replicatorStatusChanged and of c4repl_free    *)
(* are separate steps, so the two handlers and the caller interleave.      *)
(* _onStateChanged and _status are std::atomic members: their loads and    *)
(* stores are single steps.  _otherLevel and _selfRetain are plain         *)
(* members: the assignment `_selfRetain = nullptr` is a read of the old    *)
(* reference followed by the store and the release of what was read.       *)
(***************************************************************************)
EXTENDS Integers, Sequences, FiniteSets, TLC

(***************************************************************************)
(* Bounds of the model.                                                    *)
(***************************************************************************)
\* notifications other than the final `stopped` the primary engine delivers
MaxNotes == 2

(***************************************************************************)
(* Values.                                                                 *)
(***************************************************************************)
\* kC4ReplicatorActivityLevelNames
Levels == {"stopped", "offline", "connecting", "idle", "busy"}

\* C4ReplicatorMode
Modes == {"disabled", "passive", "oneShot", "continuous"}

\* the two threads that deliver notifications: _replicator, _otherReplicator
Engines == {"replicator", "otherReplicator"}

\* C4Database handles a caller can pass; NullDB is the null pointer
NullDB == 0
Databases == {1, 2}

\* URL schemes as character sequences
SchemeWS == <<"w", "s">>
SchemeWSS == <<"w", "s", "s">>
SchemeBLIP == <<"b", "l", "i", "p">>
SchemeBLIPS == <<"b", "l", "i", "p", "s">>
SchemeHTTP == <<"h", "t", "t", "p">>
SchemeNone == << >>

kValidSchemes == {SchemeWS, SchemeWSS, SchemeBLIP, SchemeBLIPS}

isValidScheme(scheme) == scheme \in kValidSchemes

\* what c4repl_new leaves in *outError: untouched (no error), the parameter
\* error of checkParam, the error c4db_openAgain reported, or the error
\* catchError made of an exception
NoError == "none"
ErrInvalidParameter == "kC4ErrorInvalidParameter"
ErrOpenAgain == "c4db_openAgain"
ErrUnexpected == "catchError"

\* error codes a status carries: 0 is "no error"
ErrorCodes == {0, 1}

\* a Replicator::Status: the activity level and the error it carries
Status(level, err) == [level |-> level, error |-> err]

NoStatus == [level |-> "none", error |-> 0]

NoCall == [db |-> NullDB]

\* every way c4repl_new is called here: the database, the scheme of
\* serverAddress, otherLocalDB, the two modes, the databases c4db_openAgain
\* fails to reopen, and the Replicator constructor that throws, if one does
AllCalls ==
    [db : Databases, scheme : kValidSchemes \cup {SchemeHTTP, SchemeNone},
     otherLocalDB : {NullDB} \cup Databases, push : Modes, pull : Modes,
     openFails : SUBSET Databases, throws : {"none", "primary", "peer"}]

\* the calls that start the sessions whose life is followed step by step
SessionCalls ==
    {c \in AllCalls : /\ c.db = 1
                      /\ c.scheme = SchemeWS
                      /\ c.otherLocalDB \in {NullDB, 2}
                      /\ c.push = "continuous"
                      /\ c.pull = "disabled"
                      /\ c.openFails = {}
                      /\ c.throws = "none"}

VARIABLES
    call,            \* arguments of the last c4repl_new call (NoCall before the first)
    result,          \* c4repl_new: "none" (not called), "session", "null", "crash" (never returned)
    outError,        \* *outError of the last c4repl_new call
    dbOpens,         \* database handles reopened by the last c4repl_new call
    enginesBuilt,    \* Replicator instances constructed by the last c4repl_new call
    onStateChanged,  \* C4Replicator::_onStateChanged is non-null
    status,          \* C4Replicator::_status
    otherLevel,      \* C4Replicator::_otherLevel
    selfRetain,      \* C4Replicator::_selfRetain is non-null
    refCount,        \* RefCounted reference count of the C4Replicator
    alive,           \* the C4Replicator has been constructed and not yet deleted
    engLevel,        \* each engine's own current level
    engFinal,        \* the engine has reported `stopped` and delivers nothing more
    stopReq,         \* Replicator::stop() has been called on the primary engine
    pc,              \* each engine thread's position in replicatorStatusChanged
    msg,             \* newStatus of the notification each thread is handling
    on,              \* notify()'s local `on`: the callback it loaded
    old,             \* per thread, the old reference read by `_selfRetain = nullptr`
    cpc,             \* caller thread's position: "idle", inside c4repl_free, "freed"
    extRef,          \* the caller holds the reference c4repl_new returned
    initStatus,      \* status of the primary engine captured by the constructor
    delivered,       \* statuses the primary engine has notified, in order
    called,          \* statuses the callback has been invoked with, in order
    releases,        \* times a non-null _selfRetain has been released
    lateCalls,       \* callback invocations begun after detach() returned
    uaf,             \* a thread has used the C4Replicator after its deletion
    crashed,         \* such a use has ended the process
    sFirstErrorMessageInternalInfo,  \* c4Base.cc: internal_info of 1st item in deque
    sErrorMessages,  \* c4Base.cc: the deque of saved error message strings
    c4err,           \* the C4Error the last recordError call wrote through outError
    recorded,        \* the messages stored last, oldest first, each with its token
    recMsg,          \* the message passed to the last recordError call that had an outError
    classified,      \* the last C4Error classified, and what the two functions returned
    urlParts,        \* the pieces the URL given to c4repl_parseURL was put together from
    parsed,          \* what c4repl_parseURL returned for it
    dbName,          \* the string given to c4repl_isValidDatabaseName
    nameValid,       \* what c4repl_isValidDatabaseName returned for it
    nameAsked,       \* c4repl_isValidDatabaseName has been called
    sErrorMessagesMutex,  \* c4Base.cc: the thread that holds the mutex, or "free"
    tpc,             \* each thread's position inside recordError
    targ,            \* each thread's `message` argument
    tinfo,           \* each thread's outError->internal_info
    calls,           \* history: the calls in the order they took the mutex
    npc              \* c4repl_new followed statement by statement: its position

vars == <<call, result, outError, dbOpens, enginesBuilt, onStateChanged, status,
          otherLevel, selfRetain, refCount, alive, engLevel, engFinal, stopReq,
          pc, msg, on, old, cpc, extRef, initStatus, delivered, called,
          releases, lateCalls, uaf, crashed,
          sFirstErrorMessageInternalInfo, sErrorMessages, c4err, recorded, recMsg,
          classified, urlParts, parsed, dbName, nameValid, nameAsked,
          sErrorMessagesMutex, tpc, targ, tinfo, calls, npc>>

newVars == <<call, result, outError, dbOpens, enginesBuilt>>
objVars == <<onStateChanged, status, otherLevel, selfRetain, refCount, alive>>
engVars == <<engLevel, engFinal, stopReq>>
thrVars == <<pc, msg, on, old>>
histVars == <<initStatus, delivered, called, releases, lateCalls>>

\* the session: everything c4Replicator.cc acts on
sessionVars == <<newVars, objVars, engVars, thrVars, cpc, extRef, histVars, uaf,
                 crashed, npc>>

\* the error message buffer of c4Base.cc
errVars == <<sFirstErrorMessageInternalInfo, sErrorMessages, c4err, recorded, recMsg>>

\* c4repl_parseURL and c4repl_isValidDatabaseName: their arguments and results
urlVars == <<urlParts, parsed>>
nameVars == <<dbName, nameValid, nameAsked>>

\* threads inside recordError, statement by statement
recVars == <<sErrorMessagesMutex, tpc, targ, tinfo, calls>>

\* the file-scope state of c4Base.cc and the arguments of the pure functions
baseVars == <<errVars, classified, urlVars, nameVars, recVars>>

\* what no step of a session touches once c4repl_new has returned
libVars == <<baseVars, npc>>

\* the session is a local-to-local one: _otherReplicator is non-null
hasOther == result = "session" /\ call.otherLocalDB # NullDB

SessionInit ==
    /\ call = NoCall
    /\ result = "none"
    /\ outError = NoError
    /\ dbOpens = 0
    /\ enginesBuilt = 0
    /\ onStateChanged = FALSE
    /\ status = NoStatus
    /\ otherLevel = "stopped"
    /\ selfRetain = FALSE
    /\ refCount = 0
    /\ alive = FALSE
    /\ engLevel = [e \in Engines |-> "stopped"]
    /\ engFinal = [e \in Engines |-> TRUE]
    /\ stopReq = FALSE
    /\ pc = [e \in Engines |-> "idle"]
    /\ msg = [e \in Engines |-> NoStatus]
    /\ on = FALSE
    /\ old = [e \in Engines |-> FALSE]
    /\ cpc = "idle"
    /\ extRef = FALSE
    /\ initStatus = NoStatus
    /\ delivered = << >>
    /\ called = << >>
    /\ releases = 0
    /\ lateCalls = 0
    /\ uaf = FALSE
    /\ crashed = FALSE
    /\ npc = "idle"

(***************************************************************************)
(* The protocol engine (Replicator), a collaborator whose code is outside  *)
(* this component.  It is constructed running (c4repl_new calls nothing    *)
(* that starts it), so its level at construction is past `stopped`; it     *)
(* moves along the level graph, and reporting `stopped` is the last thing  *)
(* it does.                                                                *)
(***************************************************************************)
\* levels an engine can have when the constructor reads status()
InitLevels == Levels \ {"stopped"}

\* the level graph: stopped -> offline -> connecting -> idle <-> busy -> stopped,
\* offline from connecting / idle / busy, stopped from anywhere
Transition(from, to) ==
    \/ to = "stopped"
    \/ from = "stopped" /\ to = "offline"
    \/ from = "offline" /\ to = "connecting"
    \/ from = "connecting" /\ to = "idle"
    \/ from = "idle" /\ to = "busy"
    \/ from = "busy" /\ to = "idle"
    \/ from \in {"connecting", "idle", "busy"} /\ to = "offline"

\* the other engine of the loopback pair
Peer(e) == IF e = "replicator" THEN "otherReplicator" ELSE "replicator"

\* the engine is shutting down: stop() was called on it, or its loopback
\* counterpart has stopped and closed the connection between them
Closing(e) ==
    \/ e = "replicator" /\ stopReq
    \/ hasOther /\ engFinal[Peer(e)]

\* the statuses an engine at level `from` can report next
NextStatuses(e, from) ==
    {st \in [level : Levels, error : ErrorCodes] :
        /\ Transition(from, st.level)
        /\ st.error # 0 => st.level \in {"stopped", "offline"}
        /\ e = "otherReplicator" => st.error = 0}

(***************************************************************************)
(* c4repl_new.                                                             *)
(***************************************************************************)
\* the checks with the database reopened before the modes are looked at
NewOutcomeOpenFirst(c) ==
    LET local == c.otherLocalDB # NullDB IN
    IF c.db \in c.openFails
    THEN [error |-> ErrOpenAgain, opens |-> 0, engines |-> 0]
    ELSE IF ~(c.push # "disabled" \/ c.pull # "disabled")
    THEN [error |-> ErrInvalidParameter, opens |-> 1, engines |-> 0]
    ELSE IF local /\ ~(c.otherLocalDB # c.db)
    THEN [error |-> ErrInvalidParameter, opens |-> 1, engines |-> 0]
    ELSE IF local /\ c.otherLocalDB \in c.openFails
    THEN [error |-> ErrOpenAgain, opens |-> 1, engines |-> 0]
    ELSE IF ~local /\ ~isValidScheme(c.scheme)
    THEN [error |-> ErrInvalidParameter, opens |-> 1, engines |-> 0]
    ELSE IF c.throws = "primary"
    THEN [error |-> ErrUnexpected, opens |-> IF local THEN 2 ELSE 1, engines |-> 0]
    ELSE IF local /\ c.throws = "peer"
    THEN [error |-> ErrUnexpected, opens |-> 2, engines |-> 1]
    ELSE [error |-> NoError, opens |-> IF local THEN 2 ELSE 1,
          engines |-> IF local THEN 2 ELSE 1]

\* the checks without `otherLocalDB != db`
NewOutcomeNoSelfCheck(c) ==
    LET local == c.otherLocalDB # NullDB IN
    IF ~(c.push # "disabled" \/ c.pull # "disabled")
    THEN [error |-> ErrInvalidParameter, opens |-> 0, engines |-> 0]
    ELSE IF c.db \in c.openFails
    THEN [error |-> ErrOpenAgain, opens |-> 0, engines |-> 0]
    ELSE IF local /\ c.otherLocalDB \in c.openFails
    THEN [error |-> ErrOpenAgain, opens |-> 1, engines |-> 0]
    ELSE IF ~local /\ ~isValidScheme(c.scheme)
    THEN [error |-> ErrInvalidParameter, opens |-> 1, engines |-> 0]
    ELSE IF c.throws = "primary"
    THEN [error |-> ErrUnexpected, opens |-> IF local THEN 2 ELSE 1, engines |-> 0]
    ELSE IF local /\ c.throws = "peer"
    THEN [error |-> ErrUnexpected, opens |-> 2, engines |-> 1]
    ELSE [error |-> NoError, opens |-> IF local THEN 2 ELSE 1,
          engines |-> IF local THEN 2 ELSE 1]

\* what the call does before it constructs the C4Replicator: the error it
\* stops at (NoError when it gets through), the database handles it has
\* reopened and the Replicator instances it has constructed by then
NewOutcome(c) ==
    LET local == c.otherLocalDB # NullDB IN
    IF ~(c.push # "disabled" \/ c.pull # "disabled")
    THEN [error |-> ErrInvalidParameter, opens |-> 0, engines |-> 0]
    ELSE IF c.db \in c.openFails
    THEN [error |-> ErrOpenAgain, opens |-> 0, engines |-> 0]
    ELSE IF local /\ ~(c.otherLocalDB # c.db)
    THEN [error |-> ErrInvalidParameter, opens |-> 1, engines |-> 0]
    ELSE IF local /\ c.otherLocalDB \in c.openFails
    THEN [error |-> ErrOpenAgain, opens |-> 1, engines |-> 0]
    ELSE IF ~local /\ ~isValidScheme(c.scheme)
    THEN [error |-> ErrInvalidParameter, opens |-> 1, engines |-> 0]
    ELSE IF c.throws = "primary"
    THEN [error |-> ErrUnexpected, opens |-> IF local THEN 2 ELSE 1, engines |-> 0]
    ELSE IF local /\ c.throws = "peer"
    THEN [error |-> ErrUnexpected, opens |-> 2, engines |-> 1]
    ELSE [error |-> NoError, opens |-> IF local THEN 2 ELSE 1,
          engines |-> IF local THEN 2 ELSE 1]

\* the C4Replicator constructors and retain(): the state of a new session
\* whose engines are at levels l1 and l2
Construct(c, l1, l2) ==
    LET local == c.otherLocalDB # NullDB IN
    /\ onStateChanged' = TRUE
    /\ status' = Status(l1, 0)
    /\ initStatus' = Status(l1, 0)
    /\ otherLevel' = IF local THEN l2 ELSE "stopped"
    /\ selfRetain' = TRUE
    /\ refCount' = 2
    /\ alive' = TRUE
    /\ extRef' = TRUE
    /\ engLevel' = [e \in Engines |->
                      IF e = "replicator" THEN l1
                      ELSE IF local THEN l2 ELSE "stopped"]
    /\ engFinal' = [e \in Engines |-> e = "otherReplicator" /\ ~local]

\* The exception left the body of the local-to-local constructor (lines 70-78):
\* the private constructor it delegates to had completed, so ~C4Replicator runs
\* during the unwinding, and ~Retained of _selfRetain releases the only
\* reference to the object that is being destroyed (delete this inside its own
\* destructor, then the deallocation by the new-expression).
ThrownFromBody(o) == o.error = ErrUnexpected /\ o.engines = 1

\* One call is followed: a call that fails leaves nothing behind but *outError.
\* After the destruction of ThrownFromBody the call either gets to catchError
\* and returns null, or the process ends inside it.
c4repl_new(c) ==
    /\ ~crashed
    /\ cpc = "idle"
    /\ result = "none"
    /\ call' = c
    /\ LET o == NewOutcome(c) IN
       /\ dbOpens' = o.opens
       /\ enginesBuilt' = o.engines
       /\ IF o.error = NoError
          THEN /\ result' = "session"
               /\ outError' = o.error
               /\ crashed' = crashed
               /\ \E l1 \in InitLevels :
                    \E l2 \in (IF c.otherLocalDB # NullDB THEN InitLevels ELSE {"stopped"}) :
                       Construct(c, l1, l2)
          ELSE /\ \/ /\ result' = "null"
                     /\ outError' = o.error
                     /\ crashed' = crashed
                  \/ /\ ThrownFromBody(o)
                     /\ result' = "crash"
                     /\ outError' = NoError
                     /\ crashed' = TRUE
               /\ UNCHANGED <<objVars, extRef, initStatus, engLevel, engFinal>>
    /\ UNCHANGED <<stopReq, thrVars, cpc, delivered, called, releases,
                   lateCalls, uaf>>
    /\ UNCHANGED libVars

NewCall(S) == result = "none" /\ \E c \in S : c4repl_new(c)

(***************************************************************************)
(* Use of the C4Replicator by a thread: after its deletion the memory is   *)
(* freed, and the use is recorded.                                         *)
(***************************************************************************)
Touch == uaf' = (uaf \/ ~alive)

\* a use after deletion may end the process at any later time
Crash ==
    /\ uaf
    /\ ~crashed
    /\ crashed' = TRUE
    /\ UNCHANGED <<newVars, objVars, engVars, thrVars, cpc, extRef, histVars, uaf>>
    /\ UNCHANGED libVars

(***************************************************************************)
(* An engine reports a status change: it calls                             *)
(* delegate.replicatorStatusChanged(this, newStatus) on its own thread.    *)
(***************************************************************************)
EngineNotify(e, st) ==
    /\ ~crashed
    /\ result = "session"
    /\ pc[e] = "idle"
    /\ ~engFinal[e]
    /\ st \in NextStatuses(e, engLevel[e])
    /\ Closing(e) => st.level = "stopped"
    /\ (e = "replicator" /\ st.level # "stopped") => Len(delivered) < MaxNotes
    /\ engLevel' = [engLevel EXCEPT ![e] = st.level]
    /\ engFinal' = [engFinal EXCEPT ![e] = (st.level = "stopped")]
    /\ msg' = [msg EXCEPT ![e] = st]
    /\ pc' = [pc EXCEPT ![e] = "changed"]
    /\ delivered' = IF e = "replicator" THEN Append(delivered, st) ELSE delivered
    /\ UNCHANGED <<newVars, objVars, stopReq, on, old, cpc, extRef, initStatus,
                   called, releases, lateCalls, uaf, crashed>>
    /\ UNCHANGED libVars

(***************************************************************************)
(* C4Replicator::replicatorStatusChanged and notify, statement by          *)
(* statement, on the thread of engine e.                                   *)
(***************************************************************************)
\* the store with the sender not told apart: every notification lands in _status
StoreStatusAnySender(e) ==
    /\ status' = msg[e]
    /\ otherLevel' = IF e = "otherReplicator" THEN msg[e].level ELSE otherLevel

\* the store without the peer's branch: _otherLevel keeps its first value
StoreStatusNoPeer(e) ==
    /\ status' = IF e = "replicator" THEN msg[e] ELSE status
    /\ otherLevel' = otherLevel

\* if (repl == _replicator) _status = newStatus;
\* else if (repl == _otherReplicator) _otherLevel = newStatus.level;
StoreStatus(e) ==
    /\ status' = IF e = "replicator" THEN msg[e] ELSE status
    /\ otherLevel' = IF e = "otherReplicator" THEN msg[e].level ELSE otherLevel

\* notify() called for either sender
AfterStoreNotifyAll(e) == "notify"

\* where the handler goes after the store: only the primary engine notifies
AfterStore(e) == IF e = "replicator" THEN "notify" ELSE "check"

Changed(e) ==
    /\ ~crashed
    /\ pc[e] = "changed"
    /\ StoreStatus(e)
    /\ pc' = [pc EXCEPT ![e] = AfterStore(e)]
    /\ Touch
    /\ UNCHANGED <<newVars, onStateChanged, selfRetain, refCount, alive, engVars,
                   msg, on, old, cpc, extRef, histVars, crashed>>
    /\ UNCHANGED libVars

\* C4ReplicatorStatusChangedCallback on = _onStateChanged;
NotifyLoad(e) ==
    /\ ~crashed
    /\ pc[e] = "notify"
    /\ on' = onStateChanged
    /\ pc' = [pc EXCEPT ![e] = IF onStateChanged THEN "call" ELSE "check"]
    /\ Touch
    /\ UNCHANGED <<newVars, objVars, engVars, msg, old, cpc, extRef, histVars,
                   crashed>>
    /\ UNCHANGED libVars

\* the status the callback is invoked with: on(this, _status, _callbackContext)
CallbackArg(e) == status

\* if (on) on(this, _status, _callbackContext);
NotifyCall(e) ==
    /\ ~crashed
    /\ pc[e] = "call"
    /\ called' = Append(called, CallbackArg(e))
    /\ lateCalls' = IF onStateChanged THEN lateCalls ELSE lateCalls + 1
    /\ pc' = [pc EXCEPT ![e] = "check"]
    /\ Touch
    /\ UNCHANGED <<newVars, objVars, engVars, msg, on, old, cpc, extRef,
                   initStatus, delivered, releases, crashed>>
    /\ UNCHANGED libVars

\* the test with || in place of &&
EitherStopped == status.level = "stopped" \/ otherLevel = "stopped"

\* status().level == kC4Stopped && _otherLevel == kC4Stopped
BothStopped == status.level = "stopped" /\ otherLevel = "stopped"

Check(e) ==
    /\ ~crashed
    /\ pc[e] = "check"
    /\ pc' = [pc EXCEPT ![e] = IF BothStopped THEN "release" ELSE "idle"]
    /\ Touch
    /\ UNCHANGED <<newVars, objVars, engVars, msg, on, old, cpc, extRef, histVars,
                   crashed>>
    /\ UNCHANGED libVars

\* _selfRetain = nullptr, first half: read the reference held so far
ReleaseLoad(e) ==
    /\ ~crashed
    /\ pc[e] = "release"
    /\ old' = [old EXCEPT ![e] = selfRetain]
    /\ pc' = [pc EXCEPT ![e] = "store"]
    /\ Touch
    /\ UNCHANGED <<newVars, objVars, engVars, msg, on, cpc, extRef, histVars,
                   crashed>>
    /\ UNCHANGED libVars

\* release(ref): drop one reference; the object is deleted at zero
Released(count) == IF count > 0 THEN count - 1 ELSE 0

\* _selfRetain = nullptr, second half: store null, release what was read
ReleaseStore(e) ==
    /\ ~crashed
    /\ pc[e] = "store"
    /\ selfRetain' = FALSE
    /\ refCount' = IF old[e] THEN Released(refCount) ELSE refCount
    /\ alive' = (alive /\ refCount' > 0)
    /\ releases' = IF old[e] THEN releases + 1 ELSE releases
    /\ old' = [old EXCEPT ![e] = FALSE]
    /\ pc' = [pc EXCEPT ![e] = "idle"]
    /\ Touch
    /\ UNCHANGED <<newVars, onStateChanged, status, otherLevel, engVars, msg, on,
                   cpc, extRef, initStatus, delivered, called,
                   lateCalls, crashed>>
    /\ UNCHANGED libVars

(***************************************************************************)
(* The caller's operations on the handle c4repl_new returned.              *)
(***************************************************************************)
\* C4Replicator::status and c4repl_getStatus: a read of _status
c4repl_getStatus == status

\* C4Replicator::stop: _replicator->stop()
stop == stopReq' = TRUE

\* C4Replicator::detach: _onStateChanged = nullptr
detach == onStateChanged' = FALSE

c4repl_stop ==
    /\ ~crashed
    /\ extRef
    /\ cpc = "idle"
    /\ ~stopReq
    /\ stop
    /\ Touch
    /\ UNCHANGED <<newVars, objVars, engLevel, engFinal, thrVars, cpc, extRef,
                   histVars, crashed>>
    /\ UNCHANGED libVars

\* c4repl_free: repl->stop();
FreeStop ==
    /\ ~crashed
    /\ extRef
    /\ cpc = "idle"
    /\ stop
    /\ cpc' = "detach"
    /\ Touch
    /\ UNCHANGED <<newVars, objVars, engLevel, engFinal, thrVars, extRef,
                   histVars, crashed>>
    /\ UNCHANGED libVars

\* c4repl_free: repl->detach();
FreeDetach ==
    /\ ~crashed
    /\ cpc = "detach"
    /\ detach
    /\ cpc' = "release"
    /\ Touch
    /\ UNCHANGED <<newVars, status, otherLevel, selfRetain, refCount, alive,
                   engVars, thrVars, extRef, histVars, crashed>>
    /\ UNCHANGED libVars

\* c4repl_free: release(repl);
FreeRelease ==
    /\ ~crashed
    /\ cpc = "release"
    /\ refCount' = Released(refCount)
    /\ alive' = (alive /\ refCount' > 0)
    /\ extRef' = FALSE
    /\ cpc' = "freed"
    /\ Touch
    /\ UNCHANGED <<newVars, onStateChanged, status, otherLevel, selfRetain,
                   engVars, thrVars, histVars, crashed>>
    /\ UNCHANGED libVars

Handler(e) ==
    \/ Changed(e)
    \/ NotifyLoad(e)
    \/ NotifyCall(e)
    \/ Check(e)
    \/ ReleaseLoad(e)
    \/ ReleaseStore(e)

Notify == \E e \in Engines : \E st \in [level : Levels, error : ErrorCodes] : EngineNotify(e, st)

Handle == \E e \in Engines : Handler(e)

Next ==
    \/ NewCall(SessionCalls)
    \/ Notify
    \/ Handle
    \/ c4repl_stop
    \/ FreeStop
    \/ FreeDetach
    \/ FreeRelease
    \/ Crash

(***************************************************************************)
(* c4repl_new statement by statement, for a call that passes its checks:   *)
(* the private constructor's member initializers (lines 96-100), the body  *)
(* of the local-to-local constructor (lines 71-77) and retain() (line 237),*)
(* with the engines' threads running between them.  An engine holds the    *)
(* controller as its delegate from its construction on.                    *)
(***************************************************************************)
\* the calls that get as far as `new C4Replicator`
PassingCalls == {c \in SessionCalls : NewOutcome(c).error = NoError}

\* the status Replicator::status() returns: the one notified last, or the one
\* the engine was constructed with
EngineStatus ==
    IF delivered = << >> THEN Status(engLevel["replicator"], 0)
    ELSE delivered[Len(delivered)]

\* operator new; _onStateChanged(onStateChanged), _callbackContext(callbackContext)
NewAlloc(c) ==
    /\ ~crashed
    /\ npc = "idle"
    /\ result = "none"
    /\ call' = c
    /\ dbOpens' = NewOutcome(c).opens
    /\ alive' = TRUE
    /\ onStateChanged' = TRUE
    /\ npc' = "replicator"
    /\ UNCHANGED <<result, outError, enginesBuilt, status, otherLevel, selfRetain,
                   refCount, engVars, thrVars, cpc, extRef, histVars, uaf, crashed>>
    /\ UNCHANGED baseVars

\* _replicator(new Replicator(db, provider, address, *this, { push, pull }))
NewReplicator ==
    /\ ~crashed
    /\ npc = "replicator"
    /\ \E l1 \in InitLevels :
          engLevel' = [engLevel EXCEPT !["replicator"] = l1]
    /\ engFinal' = [engFinal EXCEPT !["replicator"] = FALSE]
    /\ enginesBuilt' = 1
    /\ npc' = "status"
    /\ UNCHANGED <<call, result, outError, dbOpens, objVars, stopReq, thrVars, cpc,
                   extRef, histVars, uaf, crashed>>
    /\ UNCHANGED baseVars

\* _status(_replicator->status())
NewStatus ==
    /\ ~crashed
    /\ npc = "status"
    /\ status' = EngineStatus
    /\ initStatus' = EngineStatus
    /\ npc' = "selfRetain"
    /\ UNCHANGED <<newVars, onStateChanged, otherLevel, selfRetain, refCount, alive,
                   engVars, thrVars, cpc, extRef, delivered, called, releases,
                   lateCalls, uaf, crashed>>
    /\ UNCHANGED baseVars

\* _selfRetain(this): the reference count goes from 0 to 1
NewSelfRetain ==
    /\ ~crashed
    /\ npc = "selfRetain"
    /\ selfRetain' = TRUE
    /\ refCount' = refCount + 1
    /\ npc' = IF call.otherLocalDB # NullDB THEN "otherReplicator" ELSE "retain"
    /\ UNCHANGED <<newVars, onStateChanged, status, otherLevel, alive, engVars,
                   thrVars, cpc, extRef, histVars, uaf, crashed>>
    /\ UNCHANGED baseVars

\* _otherReplicator = new Replicator(otherDB, ..., *this, { kC4Passive, kC4Passive })
NewOtherReplicator ==
    /\ ~crashed
    /\ npc = "otherReplicator"
    /\ \E l2 \in InitLevels :
          engLevel' = [engLevel EXCEPT !["otherReplicator"] = l2]
    /\ engFinal' = [engFinal EXCEPT !["otherReplicator"] = FALSE]
    /\ enginesBuilt' = 2
    /\ npc' = "otherLevel"
    /\ Touch
    /\ UNCHANGED <<call, result, outError, dbOpens, objVars, stopReq, thrVars, cpc,
                   extRef, histVars, crashed>>
    /\ UNCHANGED baseVars

\* _otherLevel = _otherReplicator->status().level; provider.connect(...)
NewOtherLevel ==
    /\ ~crashed
    /\ npc = "otherLevel"
    /\ otherLevel' = engLevel["otherReplicator"]
    /\ npc' = "retain"
    /\ Touch
    /\ UNCHANGED <<newVars, onStateChanged, status, selfRetain, refCount, alive,
                   engVars, thrVars, cpc, extRef, histVars, crashed>>
    /\ UNCHANGED baseVars

\* return retain(replicator): the caller's reference; on a deleted object the
\* increment is a write to freed memory
NewRetain ==
    /\ ~crashed
    /\ npc = "retain"
    /\ refCount' = IF alive THEN refCount + 1 ELSE refCount
    /\ extRef' = TRUE
    /\ result' = "session"
    /\ npc' = "done"
    /\ Touch
    /\ UNCHANGED <<call, outError, dbOpens, enginesBuilt, onStateChanged, status,
                   otherLevel, selfRetain, alive, engVars, thrVars, cpc, histVars,
                   crashed>>
    /\ UNCHANGED baseVars

\* an engine that has been constructed reports a status change while
\* c4repl_new is still running
EarlyNotify(e, st) ==
    /\ ~crashed
    /\ npc \notin {"idle", "done"}
    /\ pc[e] = "idle"
    /\ ~engFinal[e]
    /\ st \in NextStatuses(e, engLevel[e])
    /\ (e = "replicator" /\ st.level # "stopped") => Len(delivered) < MaxNotes
    /\ engLevel' = [engLevel EXCEPT ![e] = st.level]
    /\ engFinal' = [engFinal EXCEPT ![e] = (st.level = "stopped")]
    /\ msg' = [msg EXCEPT ![e] = st]
    /\ pc' = [pc EXCEPT ![e] = "changed"]
    /\ delivered' = IF e = "replicator" THEN Append(delivered, st) ELSE delivered
    /\ UNCHANGED <<newVars, objVars, stopReq, on, old, cpc, extRef, initStatus,
                   called, releases, lateCalls, uaf, crashed>>
    /\ UNCHANGED libVars

\* `_selfRetain = nullptr` run before _selfRetain has been initialized: the
\* assignment releases whatever the uninitialized pointer holds (ReleaseLoad
\* and ReleaseStore are the case where that is null)
ReleaseUninitialized(e) ==
    /\ ~crashed
    /\ pc[e] = "release"
    /\ npc \in {"status", "selfRetain"}
    /\ crashed' = TRUE
    /\ UNCHANGED <<newVars, objVars, engVars, thrVars, cpc, extRef, histVars, uaf>>
    /\ UNCHANGED libVars

(***************************************************************************)
(* Error records and the buffer of recent error messages (c4Base.cc).      *)
(* recordError and lookupErrorMessage run under sErrorMessagesMutex, each  *)
(* as one step.  internal_info and sFirstErrorMessageInternalInfo are      *)
(* uint32_t: a uint32_t is held here as the int32_t with the same bits     *)
(* (0 .. 2^31-1 as themselves, 2^31 .. 2^32-1 as -2^31 .. -1), so that     *)
(* -1 + 1 = 0 is the uint32_t counter going from 2^32-1 round to 0.        *)
(***************************************************************************)
\* the largest int32_t
Int32Max == 2147483647

\* deque entries kept ("last 10 error message strings")
kMaxErrorMessagesToSave == 10

\* stores of a message that are followed from the empty buffer
MaxRecords == 11

\* error::NumDomainsPlus1 (== kC4MaxErrorDomainPlus1): the domains are 1 .. 6
NumDomainsPlus1 == 7

\* message strings passed to recordError; "" is the empty string
Messages == {"", "a", "b"}

\* domains and codes passed to recordError
RecordDomains == {1, 5}
RecordCodes == {2}

\* a + k modulo 2^32, for 0 <= k <= Int32Max
Add32(a, k) ==
    IF a > Int32Max - k
    THEN ((a - Int32Max) + (k - Int32Max)) - 2
    ELSE a + k

\* (int32_t)(a - b), the subtraction being modulo 2^32
Sub32(a, b) ==
    IF a >= 0 /\ b < 0 /\ a > Int32Max + b
    THEN ((a - Int32Max) - 1) + ((-1 - b) - Int32Max)
    ELSE IF a < 0 /\ b > 0 /\ a < (b - Int32Max) - 1
    THEN ((a + Int32Max) + 1) + ((Int32Max - b) + 1)
    ELSE a - b

C4Error(domain, code, info) == [domain |-> domain, code |-> code, internal_info |-> info]

\* the eviction without ++sFirstErrorMessageInternalInfo
PushMessageNoAdvance(messages, first, message) ==
    LET pushed == Append(messages, message) IN
    IF Len(pushed) > kMaxErrorMessagesToSave
    THEN [messages |-> Tail(pushed), first |-> first]
    ELSE [messages |-> pushed, first |-> first]

\* sErrorMessages.emplace_back(message);
\* if (sErrorMessages.size() > kMaxErrorMessagesToSave) {
\*     sErrorMessages.pop_front(); ++sFirstErrorMessageInternalInfo; }
PushMessage(messages, first, message) ==
    LET pushed == Append(messages, message) IN
    IF Len(pushed) > kMaxErrorMessagesToSave
    THEN [messages |-> Tail(pushed), first |-> Add32(first, 1)]
    ELSE [messages |-> pushed, first |-> first]

\* (uint32_t)(sFirstErrorMessageInternalInfo + sErrorMessages.size() - 1)
LastToken(messages, first) == Add32(first, Len(messages) - 1)

\* recordError(domain, code, message, outError): hasOut is `outError != nullptr`,
\* fails is an exception inside the try block (taking the lock or copying the
\* message into the deque), which leaves the deque as it was
recordError(domain, code, message, hasOut, fails) ==
    IF ~hasOut
    THEN UNCHANGED errVars
    ELSE IF message = "" \/ fails
    THEN /\ c4err' = C4Error(domain, code, 0)
         /\ recMsg' = message
         /\ UNCHANGED <<sFirstErrorMessageInternalInfo, sErrorMessages, recorded>>
    ELSE LET b == PushMessage(sErrorMessages, sFirstErrorMessageInternalInfo, message) IN
         /\ Len(recorded) < MaxRecords
         /\ sErrorMessages' = b.messages
         /\ sFirstErrorMessageInternalInfo' = b.first
         /\ c4err' = C4Error(domain, code, LastToken(b.messages, b.first))
         /\ recMsg' = message
         /\ recorded' = Append(recorded, [token |-> LastToken(b.messages, b.first),
                                          message |-> message])

\* lookupErrorMessage(error), by the internal_info of the error
lookupErrorMessage(info) ==
    LET index == Sub32(info, sFirstErrorMessageInternalInfo) IN
    IF index >= 0 /\ index < Len(sErrorMessages)
    THEN sErrorMessages[index + 1]
    ELSE ""

\* error(domain, code).what(): the message registered for the pair (the error
\* class is outside this component; a string that names the pair stands for it)
what(domain, code) == "error " \o ToString(domain) \o "/" \o ToString(code)

\* the stored message given only for the (domain, code) recorded last
getMessageForRecordedPair(err) ==
    IF err.code = 0
    THEN ""
    ELSE IF err.domain < 1 \/ err.domain >= NumDomainsPlus1
    THEN "unknown error domain"
    ELSE LET message == lookupErrorMessage(err.internal_info) IN
         IF message # "" /\ err.domain = c4err.domain /\ err.code = c4err.code
         THEN message ELSE what(err.domain, err.code)

\* c4error_getMessage(err)
c4error_getMessage(err) ==
    IF err.code = 0
    THEN ""
    ELSE IF err.domain < 1 \/ err.domain >= NumDomainsPlus1
    THEN "unknown error domain"
    ELSE LET message == lookupErrorMessage(err.internal_info) IN
         IF message # "" THEN message ELSE what(err.domain, err.code)

\* c4error_make / c4error_return / recordError called by any thread
Record ==
    /\ \E domain \in RecordDomains, code \in RecordCodes, message \in Messages,
          hasOut \in BOOLEAN, fails \in BOOLEAN :
            recordError(domain, code, message, hasOut, fails)
    /\ UNCHANGED <<sessionVars, classified, urlVars, nameVars, recVars>>

\* the i-th message of the stores that came before the ones followed here
EarlierMessage(i) == IF i % 2 = 0 THEN "a" ELSE "b"

\* the buffer holding `kept` messages, the oldest of them with token `first`:
\* as constructed (first = 1000, kept = 0), and once full with `first` one
\* more for every store since
ErrInit(first, kept) ==
    /\ sFirstErrorMessageInternalInfo = first
    /\ sErrorMessages = [i \in 1..kept |-> EarlierMessage(i)]
    /\ recorded = [i \in 1..kept |-> [token |-> Add32(first, i - 1),
                                       message |-> EarlierMessage(i)]]
    /\ c4err = C4Error(0, 0, 0)
    /\ recMsg = ""

(***************************************************************************)
(* Error classification (c4Base.cc): c4error_mayBeTransient and            *)
(* c4error_mayBeNetworkDependent.  A CodeList is a 0-terminated array of   *)
(* codes, an ErrorSet an array of CodeList pointers indexed by the domain  *)
(* (nullptr: no list for the domain).                                      *)
(***************************************************************************)
\* kC4MaxErrorDomainPlus1: the domains index 0 .. 6 of an ErrorSet
kC4MaxErrorDomainPlus1 == 7

\* <errno.h> codes (their Linux values)
EADDRNOTAVAIL == 99
ENETDOWN == 100
ENETUNREACH == 101
ENETRESET == 102
ECONNABORTED == 103
ECONNRESET == 104
ENOTCONN == 107
ETIMEDOUT == 110
ECONNREFUSED == 111
EHOSTDOWN == 112
EHOSTUNREACH == 113

\* C4NetworkErrorCode
kC4NetErrDNSFailure == 1
kC4NetErrUnknownHost == 2

\* websocket::kCodeGoingAway
kCodeGoingAway == 1001

nullptr == << >>

kTransientPOSIX == <<ENETRESET, ECONNABORTED, ECONNRESET, ETIMEDOUT, ECONNREFUSED, 0>>
kTransientNetwork == <<kC4NetErrDNSFailure, 0>>
kTransientWebSocket == <<408, 429, 500, 502, 503, 504, kCodeGoingAway, 0>>

\* indexed by C4ErrorDomain (entry d + 1 is the list of domain d)
kTransient ==
    <<nullptr, nullptr, kTransientPOSIX, nullptr, nullptr, kTransientNetwork,
      kTransientWebSocket>>

kUnreachablePOSIX ==
    <<ENETDOWN, ENETUNREACH, ENOTCONN, ETIMEDOUT, EHOSTDOWN, EHOSTUNREACH,
      EADDRNOTAVAIL, 0>>
kUnreachableNetwork == <<kC4NetErrDNSFailure, kC4NetErrUnknownHost, 0>>

kUnreachable ==
    <<nullptr, nullptr, kUnreachablePOSIX, nullptr, nullptr, kUnreachableNetwork,
      nullptr>>

\* for (; *pCode != 0; ++pCode) if (*pCode == code) return true;
RECURSIVE ScanCodes(_, _, _)
ScanCodes(list, i, code) ==
    IF list[i] = 0 THEN FALSE
    ELSE IF list[i] = code THEN TRUE
    ELSE ScanCodes(list, i + 1, code)

\* the scan that looks at the first code of the list only
errorIsInSetFirstCodeOnly(err, set) ==
    IF err.code # 0 /\ err.domain >= 0 /\ err.domain < kC4MaxErrorDomainPlus1
    THEN LET pCode == set[err.domain + 1] IN
         IF pCode # nullptr THEN pCode[1] # 0 /\ pCode[1] = err.code ELSE FALSE
    ELSE FALSE

\* errorIsInSet(err, set); (unsigned)err.domain < kC4MaxErrorDomainPlus1 is
\* false for a negative domain
errorIsInSet(err, set) ==
    IF err.code # 0 /\ err.domain >= 0 /\ err.domain < kC4MaxErrorDomainPlus1
    THEN LET pCode == set[err.domain + 1] IN
         IF pCode # nullptr THEN ScanCodes(pCode, 1, err.code) ELSE FALSE
    ELSE FALSE

c4error_mayBeTransient(err) == errorIsInSet(err, kTransient)

c4error_mayBeNetworkDependent(err) == errorIsInSet(err, kUnreachable)

\* the C4Errors classified: domains from -1 to one past the known range; the
\* codes of every list, 0, and codes of no list
ClassifyDomains == {-1} \cup (0..kC4MaxErrorDomainPlus1)
ClassifyCodes ==
    {0, -1, 3, 200, 404, 1000,
     EADDRNOTAVAIL, ENETDOWN, ENETUNREACH, ENETRESET, ECONNABORTED, ECONNRESET,
     ENOTCONN, ETIMEDOUT, ECONNREFUSED, EHOSTDOWN, EHOSTUNREACH,
     kC4NetErrDNSFailure, kC4NetErrUnknownHost,
     408, 429, 500, 502, 503, 504, kCodeGoingAway}

NoClassification == [err |-> C4Error(0, 0, 0), transient |-> FALSE, networkDependent |-> FALSE]

\* a caller classifies an error with both functions
Classify ==
    /\ \E domain \in ClassifyDomains, code \in ClassifyCodes :
          LET err == C4Error(domain, code, 0) IN
          classified' = [err |-> err,
                         transient |-> c4error_mayBeTransient(err),
                         networkDependent |-> c4error_mayBeNetworkDependent(err)]
    /\ UNCHANGED <<sessionVars, errVars, urlVars, nameVars, recVars>>

(***************************************************************************)
(* c4repl_isValidDatabaseName and c4repl_parseURL.  A string is a sequence *)
(* of characters; a pointer into it is an index, and its end() is the      *)
(* index one past its last character.                                      *)
(***************************************************************************)
\* length of the short strings given to c4repl_isValidDatabaseName
MaxNameLen == 3

\* "abcdefghijklmnopqrstuvwxyz0123456789_$()+-/"
NameBytes ==
    <<"a", "b", "c", "d", "e", "f", "g", "h", "i", "j", "k", "l", "m", "n", "o",
      "p", "q", "r", "s", "t", "u", "v", "w", "x", "y", "z", "0", "1", "2", "3",
      "4", "5", "6", "7", "8", "9", "_", "$", "(", ")", "+", "-", "/">>

\* islower(c), in the C locale
islower(c) ==
    c \in {"a", "b", "c", "d", "e", "f", "g", "h", "i", "j", "k", "l", "m", "n",
           "o", "p", "q", "r", "s", "t", "u", "v", "w", "x", "y", "z"}

\* slice::findByteNotIn(set): there is a byte of str that is not in set
findByteNotIn(str, set) ==
    \E i \in 1..Len(str) : \A j \in 1..Len(set) : str[i] # set[j]

\* the test without islower(name[0])
isValidDatabaseNameAnyFirst(name) ==
    /\ Len(name) > 0
    /\ Len(name) < 240
    /\ ~findByteNotIn(name, NameBytes)

\* c4repl_isValidDatabaseName(dbName)
c4repl_isValidDatabaseName(name) ==
    /\ Len(name) > 0
    /\ Len(name) < 240
    /\ islower(name[1])
    /\ ~findByteNotIn(name, NameBytes)

\* slice::findByteOrEnd(byte): the first place of byte in str, or its end
findByteOrEnd(str, byte) ==
    IF \E i \in 1..Len(str) : str[i] = byte
    THEN CHOOSE i \in 1..Len(str) : str[i] = byte /\ \A j \in 1..(i - 1) : str[j] # byte
    ELSE Len(str) + 1

\* slice(from, to): the characters from `from` up to, not including, `to`
slice(str, from, to) == SubSeq(str, from, to - 1)

\* slice::setStart(p): the string from p to its end
setStart(str, p) == SubSeq(str, p, Len(str))

hasPrefix(str, prefix) ==
    Len(str) >= Len(prefix) /\ SubSeq(str, 1, Len(prefix)) = prefix

hasSuffix(str, suffix) ==
    Len(str) >= Len(suffix)
        /\ SubSeq(str, Len(str) - Len(suffix) + 1, Len(str)) = suffix

\* std::stoi(text): leading white space is skipped, then an optional sign, then
\* the digits up to the first character that is not one; it throws when there
\* is no digit (invalid_argument) or the number does not fit (out_of_range).
\* [throws, value]
DigitChars == <<"0", "1", "2", "3", "4", "5", "6", "7", "8", "9">>
isdigit(c) == \E d \in 1..10 : DigitChars[d] = c
DigitOf(c) == (CHOOSE d \in 1..10 : DigitChars[d] = c) - 1
isspace(c) == c = " "

RECURSIVE SkipSpace(_, _)
SkipSpace(text, i) ==
    IF i <= Len(text) /\ isspace(text[i]) THEN SkipSpace(text, i + 1) ELSE i

RECURSIVE ParseDigits(_, _, _)
ParseDigits(text, i, acc) ==
    IF i > Len(text) \/ ~isdigit(text[i])
    THEN [value |-> acc, next |-> i, overflow |-> FALSE]
    ELSE IF acc > (Int32Max - DigitOf(text[i])) \div 10
    THEN [value |-> 0, next |-> i, overflow |-> TRUE]
    ELSE ParseDigits(text, i + 1, acc * 10 + DigitOf(text[i]))

stoi(text) ==
    LET i == SkipSpace(text, 1)
        signed == i <= Len(text) /\ text[i] \in {"+", "-"}
        j == IF signed THEN i + 1 ELSE i
        p == ParseDigits(text, j, 0)
    IN IF p.next = j \/ p.overflow
       THEN [throws |-> TRUE, value |-> 0]
       ELSE [throws |-> FALSE,
             value |-> IF signed /\ text[i] = "-" THEN 0 - p.value ELSE p.value]

\* what c4repl_parseURL gives back: its return value, *address and *dbName
\* (what a failed call has written to them by then is not followed)
ParseResult(ok, scheme, hostname, port, path, name) ==
    [ok |-> ok, scheme |-> scheme, hostname |-> hostname, port |-> port,
     path |-> path, dbName |-> name]

ParseFailed == ParseResult(FALSE, << >>, << >>, 0, << >>, << >>)

\* address->port = (colon[-1] == 's') ? 443 : 80;
DefaultPort(url, colon) == IF url[colon - 1] = "s" THEN 443 ELSE 80

\* the path kept with its trailing slash
KeepTrailingSlash(str) == str

\* if (str.hasSuffix("/"_sl)) str.setSize(str.size - 1);
StripTrailingSlash(str) ==
    IF hasSuffix(str, <<"/">>) THEN SubSeq(str, 1, Len(str) - 1) ELSE str

\* the scheme test with http let through
isValidSchemeOrHTTP(scheme) == scheme \in kValidSchemes \cup {SchemeHTTP}

\* isValidScheme(address->scheme), as c4repl_parseURL calls it
parseURLSchemeOK(scheme) == isValidScheme(scheme)

c4repl_parseURL(url) ==
    LET colon == findByteOrEnd(url, ":")
        scheme == slice(url, 1, colon)
        afterScheme == setStart(url, colon)
        str == setStart(afterScheme, 4)
        colon2 == findByteOrEnd(str, ":")
        slash == findByteOrEnd(str, "/")
        port == stoi(slice(str, colon2 + 1, slash))
        hostEnd == IF colon2 < slash THEN colon2 ELSE slash
        rest == setStart(str, slash)
        name == StripTrailingSlash(IF rest[1] = "/" THEN setStart(rest, 2) ELSE rest)
    IN IF ~parseURLSchemeOK(scheme) THEN ParseFailed
       ELSE IF ~hasPrefix(afterScheme, <<":", "/", "/">>) THEN ParseFailed
       ELSE IF colon2 < slash /\ port.throws THEN ParseFailed
       ELSE IF colon2 < slash /\ (port.value < 0 \/ port.value > 65535) THEN ParseFailed
       ELSE IF Len(rest) = 0 THEN ParseFailed
       ELSE IF ~c4repl_isValidDatabaseName(name) THEN ParseFailed
       ELSE ParseResult(TRUE, scheme, slice(str, 1, hostEnd),
                        IF colon2 < slash THEN port.value ELSE DefaultPort(url, colon),
                        <<"/">>, name)

\* the pieces URLs are put together from: what stands for the scheme, what
\* follows it, the host, the port with its colon (or nothing), and the path
UrlSchemes == kValidSchemes \cup {SchemeHTTP, SchemeNone}
UrlSeparators == {<<":", "/", "/">>, <<":", "/">>, <<":">>, << >>}
UrlHosts == {<<"h">>, << >>}
UrlPorts ==
    {<< >>, <<":">>, <<":", "0">>, <<":", "8", "0">>, <<":", "1", "2", "3", "4">>,
     <<":", "6", "5", "5", "3", "5">>, <<":", "6", "5", "5", "3", "6">>,
     <<":", "-", "1">>, <<":", "8", "0", "a", "b">>, <<":", "a", "b">>,
     <<":", " ", "8", "0">>, <<":", "+", "8", "0">>,
     <<":", "9", "9", "9", "9", "9", "9", "9", "9", "9", "9", "9">>}
UrlPaths ==
    {<< >>, <<"/">>, <<"/", "d", "b">>, <<"/", "d", "b", "/">>, <<"/", "D", "b">>,
     <<"/", "d", ".", "b">>, <<"/", "0", "d">>, <<"/", "a", "/", "b">>,
     <<"/", "d", "b", "/", "/">>}

UrlPieces ==
    [scheme : UrlSchemes, separator : UrlSeparators, host : UrlHosts,
     port : UrlPorts, path : UrlPaths]

NoPieces == [scheme |-> << >>]

\* the URL string
UrlOf(u) == u.scheme \o u.separator \o u.host \o u.port \o u.path

\* a caller parses a URL (one call is followed)
ParseURL ==
    /\ urlParts = NoPieces
    /\ \E u \in UrlPieces :
          /\ urlParts' = u
          /\ parsed' = c4repl_parseURL(UrlOf(u))
    /\ UNCHANGED <<sessionVars, errVars, classified, nameVars, recVars>>

\* the characters names are made of: some of NameBytes and some outside it
NameChars == {"a", "z", "0", "9", "_", "$", "(", ")", "+", "-", "/", "A", ".", ":"}

RECURSIVE Strings(_, _)
Strings(chars, n) ==
    IF n = 0 THEN {<< >>}
    ELSE LET shorter == Strings(chars, n - 1) IN
         shorter \cup {Append(str, c) : str \in {t \in shorter : Len(t) = n - 1}, c \in chars}

\* a string of n characters, `first` and then `other` repeated, ending in `last`
LongName(n, first, other, last) ==
    [i \in 1..n |-> IF i = 1 THEN first ELSE IF i = n THEN last ELSE other]

Names ==
    Strings(NameChars, MaxNameLen)
        \cup {LongName(n, "a", "b", "c") : n \in {238, 239, 240, 241}}
        \cup {LongName(239, "0", "b", "c"), LongName(239, "a", "b", "."),
              LongName(239, "a", "A", "c")}

\* a caller validates a database name (one call is followed)
ValidateName ==
    /\ ~nameAsked
    /\ nameAsked' = TRUE
    /\ \E name \in Names :
          /\ dbName' = name
          /\ nameValid' = c4repl_isValidDatabaseName(name)
    /\ UNCHANGED <<sessionVars, errVars, classified, urlVars, recVars>>

\* nothing parsed or validated yet
UrlInit ==
    /\ urlParts = NoPieces
    /\ parsed = ParseFailed
    /\ dbName = << >>
    /\ nameValid = FALSE
    /\ nameAsked = FALSE

(***************************************************************************)
(* recordError called by several threads at once, statement by statement.  *)
(* lock_guard takes sErrorMessagesMutex before the deque is touched and     *)
(* gives it back when the try block is left, by its end or by an exception. *)
(***************************************************************************)
Threads == {"t1", "t2"}

\* how many calls with a non-empty message are followed
MaxCalls == 4

\* the latest call of thread t in the history
LastCallOf(t) ==
    CHOOSE i \in 1..Len(calls) :
        /\ calls[i].thread = t
        /\ \A j \in (i + 1)..Len(calls) : calls[j].thread # t

\* lock_guard<mutex> lock(sErrorMessagesMutex) can proceed
MutexFree(t) == sErrorMessagesMutex = "free"

\* recordError is entered: domain, code and internal_info = 0 are written to
\* the caller's own outError; an empty message ends the call there
RecCall(t) ==
    /\ tpc[t] = "idle"
    /\ Len(calls) + Cardinality({u \in Threads : tpc[u] = "lock"}) < MaxCalls
    /\ \E message \in Messages :
          /\ targ' = [targ EXCEPT ![t] = message]
          /\ tpc' = [tpc EXCEPT ![t] = IF message = "" THEN "idle" ELSE "lock"]
    /\ tinfo' = [tinfo EXCEPT ![t] = 0]
    /\ UNCHANGED <<sessionVars, errVars, classified, urlVars, nameVars,
                   sErrorMessagesMutex, calls>>

\* lock_guard<mutex> lock(sErrorMessagesMutex);
RecLock(t) ==
    /\ tpc[t] = "lock"
    /\ MutexFree(t)
    /\ sErrorMessagesMutex' = t
    /\ tpc' = [tpc EXCEPT ![t] = "emplace"]
    /\ calls' = Append(calls, [thread |-> t, message |-> targ[t], token |-> 0,
                               returned |-> FALSE])
    /\ UNCHANGED <<sessionVars, errVars, classified, urlVars, nameVars, targ, tinfo>>

\* sErrorMessages.emplace_back(message);
RecEmplace(t) ==
    /\ tpc[t] = "emplace"
    /\ sErrorMessages' = Append(sErrorMessages, targ[t])
    /\ tpc' = [tpc EXCEPT ![t] =
                 IF Len(sErrorMessages') > kMaxErrorMessagesToSave
                 THEN "evict" ELSE "token"]
    /\ UNCHANGED <<sessionVars, sFirstErrorMessageInternalInfo, c4err, recorded,
                   recMsg, classified, urlVars, nameVars, sErrorMessagesMutex,
                   targ, tinfo, calls>>

\* emplace_back throws: the deque is as it was, the lock_guard is destroyed,
\* catch (...) { } leaves internal_info = 0 and the call returns
RecEmplaceThrows(t) ==
    /\ tpc[t] = "emplace"
    /\ sErrorMessagesMutex' = IF sErrorMessagesMutex = t THEN "free"
                              ELSE sErrorMessagesMutex
    /\ tpc' = [tpc EXCEPT ![t] = "idle"]
    /\ calls' = [calls EXCEPT ![LastCallOf(t)].returned = TRUE]
    /\ UNCHANGED <<sessionVars, errVars, classified, urlVars, nameVars, targ, tinfo>>

\* sErrorMessages.pop_front(); ++sFirstErrorMessageInternalInfo;
RecEvict(t) ==
    /\ tpc[t] = "evict"
    /\ Len(sErrorMessages) > 0
    /\ sErrorMessages' = Tail(sErrorMessages)
    /\ sFirstErrorMessageInternalInfo' = Add32(sFirstErrorMessageInternalInfo, 1)
    /\ tpc' = [tpc EXCEPT ![t] = "token"]
    /\ UNCHANGED <<sessionVars, c4err, recorded, recMsg, classified, urlVars,
                   nameVars, sErrorMessagesMutex, targ, tinfo, calls>>

\* outError->internal_info = (uint32_t)(sFirstErrorMessageInternalInfo +
\*                                      sErrorMessages.size() - 1);
RecToken(t) ==
    /\ tpc[t] = "token"
    /\ Len(sErrorMessages) > 0
    /\ tinfo' = [tinfo EXCEPT ![t] =
                   LastToken(sErrorMessages, sFirstErrorMessageInternalInfo)]
    /\ recorded' = Append(recorded, [token |-> tinfo'[t], message |-> targ[t]])
    /\ tpc' = [tpc EXCEPT ![t] = "unlock"]
    /\ calls' = [calls EXCEPT ![LastCallOf(t)].token = tinfo'[t]]
    /\ UNCHANGED <<sessionVars, sFirstErrorMessageInternalInfo, sErrorMessages,
                   c4err, recMsg, classified, urlVars, nameVars,
                   sErrorMessagesMutex, targ>>

\* the end of the try block: ~lock_guard; the call returns
RecUnlock(t) ==
    /\ tpc[t] = "unlock"
    /\ sErrorMessagesMutex' = IF sErrorMessagesMutex = t THEN "free"
                              ELSE sErrorMessagesMutex
    /\ tpc' = [tpc EXCEPT ![t] = "idle"]
    /\ calls' = [calls EXCEPT ![LastCallOf(t)].returned = TRUE]
    /\ UNCHANGED <<sessionVars, errVars, classified, urlVars, nameVars, targ, tinfo>>

\* no thread is inside recordError
RecInit ==
    /\ sErrorMessagesMutex = "free"
    /\ tpc = [t \in Threads |-> "idle"]
    /\ targ = [t \in Threads |-> ""]
    /\ tinfo = [t \in Threads |-> 0]
    /\ calls = <<>>

(***************************************************************************)
(* Specifications.                                                         *)
(***************************************************************************)
\* the process as started: no session yet, the error buffer as constructed
Init ==
    SessionInit /\ ErrInit(1000, 0) /\ classified = NoClassification /\ UrlInit /\ RecInit

\* the life of a session: every thread, every interleaving
Spec == Init /\ [][Next]_vars

\* an engine that is shutting down reports `stopped`
EngineStops(e) == Closing(e) /\ EngineNotify(e, Status("stopped", 0))

\* each engine thread keeps running: a handler that has begun goes on, and an
\* engine that is shutting down gets to report `stopped`
Fairness ==
    \A e \in Engines : WF_vars(Handler(e)) /\ WF_vars(EngineStops(e))

FairSpec == Spec /\ Fairness

\* session creation alone, over every call, followed by c4repl_free
NextNew ==
    \/ NewCall(AllCalls)
    \/ FreeStop
    \/ FreeDetach
    \/ FreeRelease

SpecNew == Init /\ [][NextNew]_vars

\* the error buffer alone, from construction and from shortly before its tokens
\* wrap around
\* (after 4294966296 stores sFirstErrorMessageInternalInfo is 2^32 - 10, held
\* as -10)
InitErr ==
    /\ SessionInit
    /\ classified = NoClassification
    /\ UrlInit
    /\ RecInit
    /\ \/ ErrInit(1000, 0)
       \/ ErrInit(-10, kMaxErrorMessagesToSave)

NextErr == Record

SpecErr == InitErr /\ [][NextErr]_vars

\* recordError called by the threads of Threads at once: from the buffer as
\* constructed, and from the full buffer whose next token is 2^32 - 1
InitThreads ==
    /\ SessionInit
    /\ classified = NoClassification
    /\ UrlInit
    /\ RecInit
    /\ (ErrInit(1000, 0) \/ ErrInit(-11, kMaxErrorMessagesToSave))

NextThreads ==
    \E t \in Threads :
        \/ RecCall(t)
        \/ RecLock(t)
        \/ RecEmplace(t)
        \/ RecEmplaceThrows(t)
        \/ RecEvict(t)
        \/ RecToken(t)
        \/ RecUnlock(t)

SpecThreads == InitThreads /\ [][NextThreads]_vars

\* c4repl_new statement by statement, the engines' threads running meanwhile
\* and after it has returned
NextCreate ==
    \/ \E c \in PassingCalls : NewAlloc(c)
    \/ NewReplicator
    \/ NewStatus
    \/ NewSelfRetain
    \/ NewOtherReplicator
    \/ NewOtherLevel
    \/ NewRetain
    \/ \E e \in Engines : \E st \in [level : Levels, error : ErrorCodes] : EarlyNotify(e, st)
    \/ \E e \in Engines : ReleaseUninitialized(e)
    \/ Notify
    \/ Handle

SpecCreate == Init /\ [][NextCreate]_vars

\* the classification functions alone, over every C4Error of ClassifyDomains
\* and ClassifyCodes
NextClassify == Classify

SpecClassify == Init /\ [][NextClassify]_vars

\* c4repl_parseURL alone, over every URL of UrlPieces
NextURL == ParseURL

SpecURL == Init /\ [][NextURL]_vars

\* c4repl_isValidDatabaseName alone, over every string of Names
NextName == ValidateName

SpecName == Init /\ [][NextName]_vars

(***************************************************************************)
(* Claims.                                                                 *)
(***************************************************************************)
Prim == "replicator"
Other == "otherReplicator"

\* the last-known levels of the primary and of the peer are both `stopped`
LastKnownStopped == status.level = "stopped" /\ otherLevel = "stopped"

C2_ReleasedExactlyOnce ==
    /\ releases <= 1
    /\ (hasOther /\ LastKnownStopped /\ \A e \in Engines : pc[e] = "idle") => releases = 1

\* C3: at the step that deletes the controller no status-notification handler
\* is left in progress on it.
C3_NoHandlerInProgressAtDeletion ==
    [][(alive /\ ~alive') => \A e \in Engines : pc'[e] = "idle"]_vars

\* C4: the controller of a session is deleted exactly when the caller's
\* reference and the self-reference are both gone, and detach() changes neither
\* the self-reference nor the reference count.
C4_DestroyedIffBothReferencesGone ==
    /\ [](result = "session" => (alive <=> (extRef \/ selfRetain)))
    /\ [][(onStateChanged /\ ~onStateChanged') =>
            UNCHANGED <<selfRetain, refCount, alive>>]_vars

C6_NoCallbackAfterDetach == lateCalls = 0

\* the status the controller should hold: that of the last notification of the
\* primary engine whose store has been executed, or the one captured at
\* construction
Stored == Len(delivered) - (IF pc[Prim] = "changed" THEN 1 ELSE 0)
ExpectedStatus == IF Stored = 0 THEN initStatus ELSE delivered[Stored]

\* C7: c4repl_getStatus returns the status of the most recent notification of
\* the primary engine, or the status captured at construction when there has
\* been none; no notification of the peer, no stop and no detach changes it.
C7_GetStatusIsLastPrimaryStatus ==
    (result = "session" /\ alive) => c4repl_getStatus = ExpectedStatus

\* C7 witness: after a peer notification, stop and detach, the handle still
\* returns the status the primary engine notified last
C7_Witness ==
    /\ hasOther /\ alive /\ extRef
    /\ cpc = "release"
    /\ otherLevel = "stopped"
    /\ pc[Other] = "idle"
    /\ Len(delivered) = 2
    /\ pc[Prim] = "idle"
    /\ c4repl_getStatus = delivered[2]
    /\ c4repl_getStatus # initStatus

\* notifications of the primary engine whose callback invocation is still ahead
InFlight == IF pc[Prim] \in {"changed", "notify", "call"} THEN 1 ELSE 0

\* C8: the callback invocations are, in order, the statuses the primary engine
\* notified (none skipped, repeated or reordered while the callback is
\* registered); each is made after _status holds that status; and a step of
\* the peer's handler changes neither _status nor the invocations.
C8_OneCallbackPerPrimaryNotification ==
    /\ [](/\ Len(called) <= Len(delivered)
          /\ \A i \in 1..Len(called) : called[i] = delivered[i]
          /\ onStateChanged => Len(called) = Len(delivered) - InFlight
          /\ pc[Prim] = "call" => status = msg[Prim])
    /\ [][pc'[Other] # pc[Other] => (called' = called /\ status' = status)]_vars

\* C8 witness: a loopback session with the callback registered, two primary
\* notifications and a peer notification handled
C8_Witness ==
    /\ hasOther
    /\ onStateChanged
    /\ Len(called) = 2
    /\ called = delivered
    /\ otherLevel = "stopped"
    /\ pc[Other] = "idle"

bothDisabled == call.push = "disabled" /\ call.pull = "disabled"

\* C9: a c4repl_new call with push and pull both disabled returns no session
\* and a parameter error, having reopened no database and constructed no engine.
C9_BothDisabledFailsFirst ==
    (call # NoCall /\ bothDisabled) =>
        /\ result = "null"
        /\ outError = ErrInvalidParameter
        /\ dbOpens = 0
        /\ enginesBuilt = 0
        /\ ~alive

\* C9 witness: such a call on a database that cannot even be reopened
C9_Witness ==
    /\ call # NoCall
    /\ bothDisabled
    /\ call.db \in call.openFails
    /\ call.otherLocalDB = call.db
    /\ result = "null"
    /\ outError = ErrInvalidParameter

\* C10 as stated: a local-to-local call with otherLocalDB the same handle as db
\* and not both modes disabled returns no session, a parameter error, and
\* constructs no engine.
C10_SameDatabaseIsParameterError ==
    (call # NoCall /\ call.otherLocalDB = call.db /\ ~bothDisabled) =>
        /\ result = "null"
        /\ outError = ErrInvalidParameter
        /\ enginesBuilt = 0

\* C10 amended: such a call returns no session and constructs no engine; its
\* error is the parameter error when db could be reopened, and the error of
\* c4db_openAgain when it could not.
C10_SameDatabaseFails ==
    (call # NoCall /\ call.otherLocalDB = call.db /\ ~bothDisabled) =>
        /\ result = "null"
        /\ enginesBuilt = 0
        /\ ~alive
        /\ outError = IF call.db \in call.openFails
                      THEN ErrOpenAgain ELSE ErrInvalidParameter

\* C10 witness: such a call on a database that reopens, rejected after the reopen
C10_Witness ==
    /\ call # NoCall
    /\ call.otherLocalDB = call.db
    /\ ~bothDisabled
    /\ call.db \notin call.openFails
    /\ result = "null"
    /\ outError = ErrInvalidParameter
    /\ dbOpens = 1

\* C11: whatever step of c4repl_new fails (scheme, reopening a database, an
\* exception from the construction of the primary or of the peer engine), the
\* call returns null with *outError set, no C4Replicator is left behind, and
\* the call does return.
C11_FailedCreationReturnsError ==
    (call # NoCall /\ result # "session") =>
        /\ result = "null"
        /\ outError # NoError
        /\ ~alive
        /\ ~extRef
        /\ ~crashed

\* C12: the buffer never holds more than 10 messages; looking up the token of a
\* stored message gives that message when it is one of the 10 stored last and
\* the empty string when it is older; and a store into a full buffer drops the
\* oldest message and moves the first valid token up by one, while a store
\* into a buffer with room moves nothing.
C12_WindowOfLastTen ==
    /\ [](/\ Len(sErrorMessages) <= 10
          /\ \A i \in 1..Len(recorded) :
                lookupErrorMessage(recorded[i].token) =
                    IF i > Len(recorded) - 10 THEN recorded[i].message ELSE "")
    /\ [][recorded' # recorded =>
            IF Len(sErrorMessages) = 10
            THEN /\ Len(sErrorMessages') = 10
                 /\ \A i \in 1..9 : sErrorMessages'[i] = sErrorMessages[i + 1]
                 /\ sFirstErrorMessageInternalInfo' =
                        Add32(sFirstErrorMessageInternalInfo, 1)
            ELSE /\ Len(sErrorMessages') = Len(sErrorMessages) + 1
                 /\ \A i \in 1..Len(sErrorMessages) :
                        sErrorMessages'[i] = sErrorMessages[i]
                 /\ sFirstErrorMessageInternalInfo' =
                        sFirstErrorMessageInternalInfo]_vars

\* C12 witness: 11 messages stored from the empty buffer; the first token no
\* longer resolves, the other ten do
C12_Witness ==
    /\ Len(recorded) = 11
    /\ recorded[1].token = 1000
    /\ sFirstErrorMessageInternalInfo = 1001
    /\ lookupErrorMessage(recorded[1].token) = ""
    /\ \A i \in 2..11 : lookupErrorMessage(recorded[i].token) = recorded[i].message
    /\ recorded[2].message # recorded[3].message

\* C13: a recordError call with an empty message writes token 0 and leaves the
\* buffer and its first valid token as they were; a call with a non-empty
\* message never writes token 0; and looking up token 0 gives the empty string
\* in every state of the buffer.
C13_TokenZeroMeansNoMessage ==
    /\ [](recMsg = "" => c4err.internal_info = 0)
    /\ [][recMsg' = "" =>
            UNCHANGED <<sFirstErrorMessageInternalInfo, sErrorMessages>>]_vars
    /\ [](recMsg # "" => c4err.internal_info # 0)
    /\ [](lookupErrorMessage(0) = "")

\* error records c4error_getMessage is asked about: every domain from 0 to one
\* past the known range, codes 0, 1 and 2, and as token 0, every token handed
\* out, the one before the first valid token and the one after the last
ProbeTokens ==
    {0, Add32(sFirstErrorMessageInternalInfo, Len(sErrorMessages)),
     Sub32(sFirstErrorMessageInternalInfo, 1)}
        \cup {recorded[i].token : i \in 1..Len(recorded)}
ProbeErrors == [domain : 0..7, code : 0..2, internal_info : ProbeTokens]

\* the tokens of the 10 messages stored last
ValidTokens ==
    {recorded[i].token : i \in {j \in 1..Len(recorded) : j > Len(recorded) - 10}}

\* C14: c4error_getMessage gives the empty string when code is 0, whatever the
\* domain; else "unknown error domain" when the domain is not one of 1 .. 6;
\* else the message lookupErrorMessage finds for the token when it finds one;
\* else the message registered for (domain, code), and that is the case for
\* token 0 and for every token that is not one of the 10 stored last.
C14_GetMessageOrder ==
    \A err \in ProbeErrors :
        LET got == c4error_getMessage(err) IN
        IF err.code = 0 THEN got = ""
        ELSE IF err.domain \notin 1..6 THEN got = "unknown error domain"
        ELSE /\ lookupErrorMessage(err.internal_info) # "" =>
                    got = lookupErrorMessage(err.internal_info)
             /\ lookupErrorMessage(err.internal_info) = "" =>
                    got = "error " \o ToString(err.domain) \o "/" \o ToString(err.code)
             /\ (err.internal_info = 0 \/ err.internal_info \notin ValidTokens) =>
                    got = "error " \o ToString(err.domain) \o "/" \o ToString(err.code)

\* the codes the claim's two classifications hold, by domain: POSIX (2),
\* Network (5) and WebSocket (6); no other domain has any
TransientCodes(domain) ==
    IF domain = 2 THEN {102, 103, 104, 110, 111}
    ELSE IF domain = 5 THEN {1}
    ELSE IF domain = 6 THEN {408, 429, 500, 502, 503, 504, 1001}
    ELSE {}
NetworkDependentCodes(domain) ==
    IF domain = 2 THEN {100, 101, 107, 110, 112, 113, 99}
    ELSE IF domain = 5 THEN {1, 2}
    ELSE {}

\* C15: each classification is true exactly when the code is not 0, the domain
\* is one of 0 .. 6 and the code is in the function's set for the domain, and
\* false otherwise; the DNS-failure code of the network domain is true for
\* both; and classifying changes nothing else.
C15_ClassificationIsSetMembership ==
    /\ [](LET err == classified.err IN
          /\ classified.transient <=>
                (err.code # 0 /\ err.domain \in 0..6
                    /\ err.code \in TransientCodes(err.domain))
          /\ classified.networkDependent <=>
                (err.code # 0 /\ err.domain \in 0..6
                    /\ err.code \in NetworkDependentCodes(err.domain))
          /\ (err.domain = 5 /\ err.code = 1) =>
                (classified.transient /\ classified.networkDependent))
    /\ [][classified' # classified => UNCHANGED <<sessionVars, errVars>>]_vars

\* C15 witness: the DNS failure of the network domain classified, true for both
C15_Witness ==
    /\ classified.err.domain = 5
    /\ classified.err.code = 1
    /\ classified.transient
    /\ classified.networkDependent

\* what the claims about URLs and names speak of: the letters a .. z, the
\* digits, the characters a database name may hold, the decimal value of a
\* string of digits, and the name a path stands for
LowerLetters ==
    {"a", "b", "c", "d", "e", "f", "g", "h", "i", "j", "k", "l", "m", "n", "o",
     "p", "q", "r", "s", "t", "u", "v", "w", "x", "y", "z"}
DecimalDigits == {"0", "1", "2", "3", "4", "5", "6", "7", "8", "9"}
NameCharacters == LowerLetters \cup DecimalDigits \cup {"_", "$", "(", ")", "+", "-", "/"}

ValidName(name) ==
    /\ Len(name) > 0
    /\ Len(name) < 240
    /\ name[1] \in LowerLetters
    /\ \A i \in 1..Len(name) : name[i] \in NameCharacters

AllDigits(text) == Len(text) > 0 /\ \A i \in 1..Len(text) : text[i] \in DecimalDigits

RECURSIVE Decimal(_)
Decimal(text) ==
    IF text = << >> THEN 0
    ELSE Decimal(SubSeq(text, 1, Len(text) - 1)) * 10
            + (CHOOSE d \in 0..9 : DigitChars[d + 1] = text[Len(text)])

\* a well-formed integer in [0, 65535]: digits only (at most 9 here), in range
WellFormedPort(text) == AllDigits(text) /\ Len(text) <= 9 /\ Decimal(text) <= 65535

\* the path without its leading slash and without one trailing slash
NameOf(path) ==
    LET inner == SubSeq(path, 2, Len(path)) IN
    IF Len(inner) > 0 /\ inner[Len(inner)] = "/"
    THEN SubSeq(inner, 1, Len(inner) - 1)
    ELSE inner

\* the URL was put together as scheme://host[:port]path
WellPut(u) == u.scheme \in kValidSchemes /\ u.separator = <<":", "/", "/">>

\* C16: an accepted URL without a port has port 443 when its scheme is wss or
\* blips and port 80 when it is ws or blip.
C16_DefaultPort ==
    (urlParts # NoPieces /\ WellPut(urlParts) /\ urlParts.port = << >> /\ parsed.ok) =>
        parsed.port = IF urlParts.scheme \in {SchemeWSS, SchemeBLIPS} THEN 443 ELSE 80

\* C17: a URL with a port (the text between the colon after the host and the
\* next slash) is accepted only if that whole text is digits that make a
\* number in [0, 65535].
C17_PortWellFormed ==
    (urlParts # NoPieces /\ WellPut(urlParts) /\ urlParts.port # << >> /\ parsed.ok) =>
        WellFormedPort(Tail(urlParts.port))

\* what follows the scheme in the URL string
AfterScheme(u) == u.separator \o u.host \o u.port \o u.path

StartsWithSlashes(str) ==
    Len(str) >= 3 /\ str[1] = ":" /\ str[2] = "/" /\ str[3] = "/"

\* C18: c4repl_parseURL fails for a URL with no scheme, with a scheme other
\* than ws, wss, blip, blips, without "://" after the scheme, with nothing
\* after the host, or with a path that is not a valid database name.
C18_MalformedUrlFails ==
    (/\ urlParts # NoPieces
     /\ \/ urlParts.scheme = SchemeNone
        \/ urlParts.scheme \notin {SchemeWS, SchemeWSS, SchemeBLIP, SchemeBLIPS}
        \/ ~StartsWithSlashes(AfterScheme(urlParts))
        \/ WellPut(urlParts) /\ urlParts.path = << >>
        \/ WellPut(urlParts) /\ ~ValidName(NameOf(urlParts.path)))
    => ~parsed.ok

\* C18 witness: a URL that is well formed but for its database name, rejected
C18_Witness ==
    /\ urlParts # NoPieces
    /\ urlParts.scheme = SchemeWSS
    /\ urlParts.separator = <<":", "/", "/">>
    /\ urlParts.host = <<"h">>
    /\ urlParts.port = <<":", "8", "0">>
    /\ urlParts.path = <<"/", "D", "b">>
    /\ ~parsed.ok

\* the URL is scheme://host[:port]/dbname[/] with a port of digits
FormOfC19(u) ==
    /\ WellPut(u)
    /\ u.port = << >> \/ AllDigits(Tail(u.port))
    /\ u.path # << >>

\* C19 as stated: an accepted URL scheme://host[:port]/dbname[/] gives the
\* scheme, hostname = host, the port when one is given, path = "/dbname" and
\* the database name dbname, the trailing slash stripped.
C19_ParsedFieldsPathWithName ==
    (urlParts # NoPieces /\ FormOfC19(urlParts) /\ parsed.ok) =>
        /\ parsed.scheme = urlParts.scheme
        /\ parsed.hostname = urlParts.host
        /\ urlParts.port # << >> => parsed.port = Decimal(Tail(urlParts.port))
        /\ parsed.path = <<"/">> \o NameOf(urlParts.path)
        /\ parsed.dbName = NameOf(urlParts.path)

\* C19 amended: an accepted URL scheme://host[:port]/dbname[/] gives the
\* scheme, hostname = host, the port when one is given, path = "/" and the
\* database name dbname, the trailing slash stripped.
C19_ParsedFields ==
    (urlParts # NoPieces /\ FormOfC19(urlParts) /\ parsed.ok) =>
        /\ parsed.scheme = urlParts.scheme
        /\ parsed.hostname = urlParts.host
        /\ urlParts.port # << >> => parsed.port = Decimal(Tail(urlParts.port))
        /\ parsed.path = <<"/">>
        /\ parsed.dbName = NameOf(urlParts.path)

\* C19 witness: wss://h:1234/db/ accepted, with port 1234 and name db
C19_Witness ==
    /\ urlParts # NoPieces
    /\ UrlOf(urlParts) = <<"w", "s", "s", ":", "/", "/", "h", ":", "1", "2", "3", "4",
                           "/", "d", "b", "/">>
    /\ parsed.ok
    /\ parsed.port = 1234
    /\ parsed.dbName = <<"d", "b">>

\* C20: c4repl_isValidDatabaseName is true exactly for the strings of 1 to 239
\* characters that start with a lowercase letter and hold only lowercase
\* letters, digits and _ $ ( ) + - /.
C20_ValidNameExactly ==
    nameAsked => (nameValid <=> ValidName(dbName))

\* C20 witness: a name of 239 characters, accepted
C20_Witness ==
    /\ nameAsked
    /\ Len(dbName) = 239
    /\ nameValid


\* a < b as uint32_t values, each held as the int32_t with the same bits
ULess(a, b) ==
    IF (a >= 0) = (b >= 0) THEN a < b ELSE a >= 0

\* the tokens lookupErrorMessage resolves: the first valid one and the
\* following ones, one for each message in the buffer
TokenWindow ==
    {Add32(sFirstErrorMessageInternalInfo, k) : k \in 0..(Len(sErrorMessages) - 1)}

\* the calls with a non-empty message that have returned
ReturnedCalls == {i \in 1..Len(calls) : calls[i].returned}

\* C21: the recordError calls that threads make concurrently with non-empty
\* messages are serialized: the tokens they return are pairwise distinct and
\* strictly increasing in the order in which the calls took the mutex, and
\* whenever a lookup can run (it takes the same mutex), a returned token that
\* is still in the valid window resolves to the message of the call that
\* returned it, never to the message of another call.
C21_ConcurrentRecordsSerialized ==
    /\ \A i, j \in ReturnedCalls :
          i < j => /\ calls[i].token # calls[j].token
                   /\ ULess(calls[i].token, calls[j].token)
    /\ sErrorMessagesMutex = "free" =>
          \A i \in ReturnedCalls :
              calls[i].token \in TokenWindow =>
                  lookupErrorMessage(calls[i].token) = calls[i].message


\* C22: the handle a successful c4repl_new returns refers to a C4Replicator
\* that is still alive, whatever the engines' threads did between the steps of
\* the creation: at the step that returns the session the object has not been
\* deleted, and no step of the creation has used it after its deletion.
C22_ReturnedHandleAlive ==
    [][(result # "session" /\ result' = "session") => (alive' /\ ~uaf')]_vars


\* C23: for an error record with a non-zero code and a domain from 1 to 6,
\* c4error_getMessage depends on the token and the buffer only, never on the
\* domain and the code: when the token is in the valid window it returns the
\* message stored under that token, whatever (domain, code) that message was
\* recorded for, and it returns the message registered for (domain, code) only
\* when the token is outside the window.
C23_MessageByTokenOnly ==
    \A err \in ProbeErrors :
        (err.code # 0 /\ err.domain \in 1..6) =>
            LET got == c4error_getMessage(err)
                generic == "error " \o ToString(err.domain) \o "/" \o ToString(err.code)
            IN  IF err.internal_info \in TokenWindow
                THEN /\ got # generic
                     /\ \E k \in 1..Len(recorded) :
                           /\ k > Len(recorded) - 10
                           /\ recorded[k].token = err.internal_info
                           /\ got = recorded[k].message
                ELSE got = generic

\* C23 witness: 11 messages stored, the last one "a" for (1, 2); asked with
\* (5, 1), its token gives "a" and the token of the first, evicted, message
\* gives the message registered for (5, 1)
C23_Witness ==
    /\ Len(recorded) = 11
    /\ c4err.domain = 1 /\ c4err.code = 2
    /\ recMsg = "a"
    /\ c4err.internal_info = recorded[11].token
    /\ c4err.internal_info \in TokenWindow
    /\ c4error_getMessage(C4Error(5, 1, c4err.internal_info)) = "a"
    /\ recorded[1].token \notin TokenWindow
    /\ c4error_getMessage(C4Error(5, 1, recorded[1].token)) = "error 5/1"

====
